---- MODULE Spec2Model ----
(***************************************************************************)
(* Model of musica.custom_types.CyclicList: a tuple of values traversed    *)
(* with wraparound, a cursor (_counter, _current_index) advanced by        *)
(* __next__, and the derivations copy, __iter__, map, __getitem__ (index   *)
(* and slice) and custom_iter, each of which builds a new instance through *)
(* __init__.                                                               *)
(*                                                                         *)
(* The class never inspects its elements (index() apart, which is not      *)
(* modelled), so a constructed list over n elements is modelled with the   *)
(* n distinct labels 0..n-1: label p stands for "the element given at      *)
(* position p".  Derived lists (slice, custom_iter, map) hold arbitrary    *)
(* sequences of labels.                                                    *)
(***************************************************************************)
EXTENDS Integers, Sequences, FiniteSets, TLC

(* ------------------------------ bounds --------------------------------- *)
MaxLen == 3        \* longest tuple given to the constructor
MaxLimit == 2      \* largest integer given as limit=
MaxCounts == 2     \* largest integer given as counts=
MaxStart == 2      \* largest integer given as start_index=
MaxStep == 3       \* largest step= given to custom_iter
MaxHops == 2       \* longest intervals= list given to custom_iter
MaxStop == 4       \* largest |stop| of a slice
MaxValues == 4     \* longest tuple a derived instance is followed with
MaxCalls == 7      \* next() calls followed on one instance
MaxStops == 2      \* exhausted next() calls followed on one instance

(* ---------------- optional / sentinel argument values ------------------ *)
\* _UNDEFINED (the module's sentinel object), None, and an int are the three
\* shapes a limit/counts value takes.
Unset == [tag |-> "unset", val |-> 0]
NoneV == [tag |-> "none", val |-> 0]
IntV(k) == [tag |-> "int", val |-> k]

\* isinstance(x, int)
IsInt(x) == x.tag = "int"

\* Python truthiness: the sentinel object is truthy, None is falsy, an int is
\* truthy unless it is 0.
Truthy(x) == x.tag = "unset" \/ (x.tag = "int" /\ x.val # 0)

\* Python's  a or b
Or(a, b) == IF Truthy(a) THEN a ELSE b

(* ------------------------------ instances ------------------------------ *)
\* the fields __init__ assigns
New(values, limit, reverse, counts, start_index) ==
    LET s == IF Truthy(start_index) THEN start_index.val ELSE 0
    IN  [values |-> values, reverse |-> reverse, limit |-> limit,
         counts |-> counts, counter |-> 0,
         start_index |-> s, current_index |-> s]

\* a slot holding no instance
NoInst == New(<<>>, Unset, FALSE, Unset, NoneV)

\* __init__ without the check of limit against counts
ConstructFailsEmpty(values, limit, counts) == values = <<>>

\* the two ValueErrors of __init__
ConstructFails(values, limit, counts) ==
    \/ (Truthy(limit) /\ limit # Unset /\ Truthy(counts) /\ counts # Unset)
    \/ values = <<>>

\* result of an operation that returns an instance: "ok" with the instance,
\* "error" when an exception leaves the call, "hang" when the call never
\* returns (a list comprehension over an unbounded iterator)
Ok(inst) == [status |-> "ok", inst |-> inst]
Error == [status |-> "error", inst |-> NoInst]
Hang == [status |-> "hang", inst |-> NoInst]

Construct(values, limit, reverse, counts, start_index) ==
    IF ConstructFails(values, limit, counts)
    THEN Error
    ELSE Ok(New(values, limit, reverse, counts, start_index))

\* copy(*args, start_index=, reverse=, limit=, counts=); reverse is one of
\* "None", "True", "False"
CopyStart(self, start_index, reverse) ==
    LET s0 == IF start_index # NoneV THEN start_index.val ELSE self.start_index
    IN  IF reverse = "True" \/ (reverse = "None" /\ self.reverse)
        THEN Len(self.values) - s0 - 1
        ELSE s0

CopyOf(self, args, start_index, reverse, limit, counts) ==
    Construct(IF args # <<>> THEN args ELSE self.values,
              Or(limit, self.limit),
              IF reverse # "None" THEN reverse = "True" ELSE self.reverse,
              Or(counts, self.counts),
              IntV(CopyStart(self, start_index, reverse)))

\* __iter__ returning the instance itself, cursor included
IterOfSelf(self) == Ok(self)

\* __iter__
IterOf(self) == CopyOf(self, <<>>, NoneV, "None", NoneV, NoneV)

\* __getitem__ with an int
GetItem(self, index) ==
    LET n == Len(self.values)
        i == IF self.reverse THEN (n - index - 1) % n ELSE index % n
    IN  self.values[i + 1]

\* the bound resolved from counts alone, whatever its sign, else from limit
EffLimitAbs(self) ==
    LET c == IF self.counts = Unset /\ self.limit = Unset
             THEN IntV(1) ELSE self.counts
        a == IF c.val < 0 THEN -c.val ELSE c.val
    IN  IF IsInt(c) THEN IntV(a * Len(self.values)) ELSE self.limit

\* the bound __next__ resolves on each call
EffLimit(self) ==
    LET c == IF self.counts = Unset /\ self.limit = Unset
             THEN IntV(1) ELSE self.counts
    IN  IF IsInt(c) THEN IntV(c.val * Len(self.values)) ELSE self.limit

\* __next__ with the bound compared by >= (one item short)
NextOfStopEarly(self) ==
    LET v == GetItem(self, self.current_index)
        l == EffLimit(self)
        c == self.counter + 1
    IN  IF IsInt(l) /\ c >= l.val
        THEN [inst |-> [self EXCEPT !.counter = c], raised |-> TRUE, value |-> v]
        ELSE [inst |-> [self EXCEPT !.counter = c,
                          !.current_index =
                              (self.current_index + 1) % Len(self.values)],
              raised |-> FALSE, value |-> v]

\* __next__ advancing the index by two
NextOfSkip(self) ==
    LET v == GetItem(self, self.current_index)
        l == EffLimit(self)
        c == self.counter + 1
    IN  IF IsInt(l) /\ c > l.val
        THEN [inst |-> [self EXCEPT !.counter = c], raised |-> TRUE, value |-> v]
        ELSE [inst |-> [self EXCEPT !.counter = c,
                          !.current_index =
                              (self.current_index + 2) % Len(self.values)],
              raised |-> FALSE, value |-> v]

\* __next__ starting over once it is exhausted
NextOfRestart(self) ==
    LET v == GetItem(self, self.current_index)
        l == EffLimit(self)
        c == self.counter + 1
    IN  IF IsInt(l) /\ c > l.val
        THEN [inst |-> [self EXCEPT !.counter = 0], raised |-> TRUE, value |-> v]
        ELSE [inst |-> [self EXCEPT !.counter = c,
                          !.current_index =
                              (self.current_index + 1) % Len(self.values)],
              raised |-> FALSE, value |-> v]

\* __next__: the instance after the call, whether StopIteration was raised,
\* and the value returned otherwise
NextOf(self) ==
    IF self.values = <<>>
    THEN [inst |-> self, raised |-> TRUE, value |-> 0]
    ELSE LET v == GetItem(self, self.current_index)
             l == EffLimit(self)
             c == self.counter + 1
         IN  IF IsInt(l) /\ c > l.val
             THEN [inst |-> [self EXCEPT !.counter = c],
                   raised |-> TRUE, value |-> v]
             ELSE [inst |-> [self EXCEPT !.counter = c,
                               !.current_index =
                                   (self.current_index + 1) % Len(self.values)],
                   raised |-> FALSE, value |-> v]

\* next() until StopIteration, on an iterator that is bounded
RECURSIVE DrainAll(_)
DrainAll(it) ==
    LET r == NextOf(it)
    IN  IF r.raised THEN <<>> ELSE <<r.value>> \o DrainAll(r.inst)

\* [v for v in x]: __iter__ then next() until StopIteration
ListOf(x) ==
    LET it == IterOf(x)
    IN  IF it.status # "ok" THEN [status |-> it.status, vals |-> <<>>]
        ELSE IF ~IsInt(EffLimit(it.inst))
        THEN [status |-> "hang", vals |-> <<>>]
        ELSE [status |-> "ok", vals |-> DrainAll(it.inst)]

\* the items zip(it, m other items) draws from it
RECURSIVE ZipTake(_, _)
ZipTake(it, m) ==
    IF m = 0 THEN <<>>
    ELSE LET r == NextOf(it)
         IN  IF r.raised THEN <<>> ELSE <<r.value>> \o ZipTake(r.inst, m - 1)

\* __getitem__ with a slice; start and stop are NoneV or an int
SliceStart(self, start) ==
    IF Truthy(start) THEN self.start_index + start.val ELSE self.start_index

\* the limit of a slice with a positive stop taken as it is
SliceLimitNoWrap(self, stop) ==
    IF Truthy(stop) /\ stop.val < 0 THEN Len(self.values) + stop.val
    ELSE IF Truthy(stop) THEN stop.val
    ELSE Len(self.values)

SliceLimit(self, stop) ==
    IF Truthy(stop) /\ stop.val < 0 THEN Len(self.values) + stop.val
    ELSE IF Truthy(stop) THEN stop.val % Len(self.values)
    ELSE Len(self.values)

SliceOf(self, start, stop) ==
    LET c == CopyOf(self, <<>>, IntV(SliceStart(self, start)), "None",
                    IntV(SliceLimit(self, stop)), NoneV)
    IN  IF c.status # "ok" THEN Error
        ELSE LET l == ListOf(c.inst)
             IN  IF l.status = "hang" THEN Hang
                 ELSE IF l.status = "error" THEN Error
                 ELSE Construct(l.vals, Unset, FALSE, Unset, NoneV)

\* map(func): func is a function on labels
MapOf(self, func) ==
    Construct([k \in 1..Len(self.values) |-> func[self.values[k]]],
              Unset, FALSE, Unset, NoneV)

\* custom_iter: the list _current_value_order
ValueOrder(self) ==
    LET inf == CopyOf(self, <<>>, NoneV, "None", NoneV, NoneV)
        it == IterOf(inf.inst)
    IN  ZipTake(it.inst, Len(self.values))

\* [val for i, val in enumerate(order) if i % step == 0]
RECURSIVE Stepped(_, _, _)
Stepped(order, step, i) ==
    IF i >= Len(order) THEN <<>>
    ELSE (IF i % step = 0 THEN <<order[i + 1]>> ELSE <<>>)
         \o Stepped(order, step, i + 1)

\* the loop over intervals with every hop taken from position 0
RECURSIVE WalkFromStart(_, _, _, _, _)
WalkFromStart(order, n, hops, k, index) ==
    IF k > Len(hops) THEN <<>>
    ELSE LET j == hops[k] % n
         IN  IF j >= Len(order) THEN <<-1>>
             ELSE <<order[j + 1]>> \o WalkFromStart(order, n, hops, k + 1, j)

\* the loop over intervals: the values appended from position k of hops on,
\* with _index = index before the hop; <<-1>> marks an IndexError
RECURSIVE Walk(_, _, _, _, _)
Walk(order, n, hops, k, index) ==
    IF k > Len(hops) THEN <<>>
    ELSE LET j == (index + hops[k]) % n
         IN  IF j >= Len(order) THEN <<-1>>
             ELSE <<order[j + 1]>> \o Walk(order, n, hops, k + 1, j)

\* custom_iter(intervals=, step=, start_index=, counts=, limit=); intervals
\* is [given |-> FALSE] for None, otherwise the hops it iterates to (status
\* as for ListOf when it is a CyclicList)
NoIntervals == [given |-> FALSE, status |-> "ok", vals |-> <<>>]
HopList(hops) == [given |-> TRUE, status |-> "ok", vals |-> hops]
HopCyclic(c) == [given |-> TRUE] @@ ListOf(c)

CustomIter(self, intervals, step, start_index, counts, limit) ==
    LET order == ValueOrder(self)
        n == Len(self.values)
    IN  IF intervals.given /\ step # NoneV THEN Error
        ELSE IF intervals.given
        THEN IF order = <<>> THEN Error
             ELSE IF intervals.status # "ok"
             THEN [status |-> intervals.status, inst |-> NoInst]
             ELSE LET w == Walk(order, n, intervals.vals, 1, 0)
                  IN  IF \E k \in 1..Len(w) : w[k] = -1 THEN Error
                      ELSE CopyOf(self, <<order[1]>> \o w, start_index,
                                  "None", limit, counts)
        ELSE CopyOf(self,
                    IF Truthy(step) THEN Stepped(order, step.val, 0) ELSE order,
                    start_index, "None", limit, counts)

(* ------------------------------- inputs -------------------------------- *)
\* the tuple range(n)
Range(n) == [k \in 1..n |-> k - 1]
Labels == 0..(MaxLen - 1)
Opt(S) == {NoneV} \cup {IntV(k) : k \in S}
HopLists(H, m) == UNION {[1..k -> H] : k \in 0..m}

\* The arguments the calls are made with.  Wide: every shape of every
\* argument, used where one call is examined at a time.
Wide ==
    [lens |-> 0..MaxLen,
     limits |-> {Unset} \cup Opt(-1..MaxLimit),
     countss |-> {Unset} \cup Opt(-1..MaxCounts),
     starts |-> Opt(-1..MaxStart),
     args |-> {<<>>, <<1, 0>>},
     optstarts |-> Opt(0..1),
     reverses |-> {"None", "True", "False"},
     optlimits |-> Opt({0, MaxLimit}),
     optcounts |-> Opt({0, MaxCounts}),
     stops |-> Opt(-MaxStop..MaxStop),
     steps |-> Opt(1..MaxStep),
     hops |-> HopLists({-1, 1, 2}, MaxHops),
     overrides |-> {<<NoneV, NoneV, NoneV>>, <<IntV(1), NoneV, NoneV>>,
                    <<NoneV, IntV(MaxLimit), NoneV>>,
                    <<NoneV, NoneV, IntV(MaxCounts)>>},
     funcs |-> {[v \in Labels |-> (v + 1) % MaxLen], [v \in Labels |-> 0]}]

\* Few: a few arguments of each shape, used where calls on two instances
\* are interleaved.
Few ==
    [lens |-> {0, 2},
     limits |-> {Unset, NoneV, IntV(1)},
     countss |-> {Unset, IntV(2)},
     starts |-> {NoneV, IntV(1)},
     args |-> {<<>>},
     optstarts |-> {NoneV, IntV(1)},
     reverses |-> {"None", "True", "False"},
     optlimits |-> {NoneV, IntV(1)},
     optcounts |-> {NoneV, IntV(2)},
     stops |-> {NoneV, IntV(1), IntV(-1)},
     steps |-> {NoneV, IntV(2)},
     hops |-> {<<1>>, <<1, 2>>},
     overrides |-> {<<NoneV, NoneV, NoneV>>},
     funcs |-> {[v \in Labels |-> (v + 1) % MaxLen]}]

(* -------------------------------- state -------------------------------- *)
VARIABLES
    insts,   \* the instances the program holds, by slot (NoInst: none)
    out,     \* per slot: the values next() has returned on that instance
    stops,   \* per slot: the StopIterations next() has raised on it
    last     \* the last call: operation, source and result slot, arguments

vars == <<insts, out, stops, last>>

Slots == 1..2

Live(i) == insts[i] # NoInst

NoCall ==
    [op |-> "none", src |-> 0, dst |-> 0, status |-> "ok", n |-> 0,
     args |-> <<>>, start |-> NoneV, stop |-> NoneV, step |-> NoneV,
     intervals |-> NoIntervals, limit |-> NoneV, counts |-> NoneV,
     reverse |-> "None"]

Init ==
    /\ insts = [i \in Slots |-> NoInst]
    /\ out = [i \in Slots |-> <<>>]
    /\ stops = [i \in Slots |-> 0]
    /\ last = NoCall

\* a call that never returns leaves the program stuck in it
Running == last.status # "hang"

\* the result r of a call is bound to slot d; a call that raises binds nothing
Bind(d, r, call) ==
    /\ Running
    /\ r.status = "ok" => Len(r.inst.values) <= MaxValues
    /\ last' = [call EXCEPT !.status = r.status, !.dst = d]
    /\ IF r.status = "ok"
       THEN /\ insts' = [insts EXCEPT ![d] = r.inst]
            /\ out' = [out EXCEPT ![d] = <<>>]
            /\ stops' = [stops EXCEPT ![d] = 0]
       ELSE UNCHANGED <<insts, out, stops>>

\* CyclicList(*range(n), limit=, reverse=, counts=, start_index=), the
\* program's first call
DoConstruct(dom) ==
    /\ last.op = "none"
    /\ \E n \in dom.lens, limit \in dom.limits, reverse \in BOOLEAN,
          counts \in dom.countss, start_index \in dom.starts :
        Bind(1, Construct(Range(n), limit, reverse, counts, start_index),
             [NoCall EXCEPT !.op = "init", !.n = n, !.limit = limit,
                 !.counts = counts, !.start = start_index,
                 !.reverse = IF reverse THEN "True" ELSE "False"])

DoCopy(s, d, dom) ==
    \E args \in dom.args, start_index \in dom.optstarts,
       reverse \in dom.reverses, limit \in dom.optlimits,
       counts \in dom.optcounts :
        Bind(d, CopyOf(insts[s], args, start_index, reverse, limit, counts),
             [NoCall EXCEPT !.op = "copy", !.src = s, !.args = args,
                 !.start = start_index, !.reverse = reverse,
                 !.limit = limit, !.counts = counts])

DoIter(s, d) ==
    Bind(d, IterOf(insts[s]), [NoCall EXCEPT !.op = "iter", !.src = s])

DoMap(s, d, dom) ==
    \E func \in dom.funcs :
        Bind(d, MapOf(insts[s], func), [NoCall EXCEPT !.op = "map", !.src = s])

DoSlice(s, d, dom) ==
    \E start \in dom.starts, stop \in dom.stops :
        Bind(d, SliceOf(insts[s], start, stop),
             [NoCall EXCEPT !.op = "slice", !.src = s,
                 !.start = start, !.stop = stop])

DoCustomIter(s, d, dom) ==
    \E intervals \in {NoIntervals} \cup {HopList(h) : h \in dom.hops}
                      \cup {HopCyclic(insts[j]) : j \in {k \in Slots : Live(k)}},
       o \in dom.overrides :
      \E step \in IF intervals.given THEN {NoneV, IntV(1)} ELSE dom.steps :
        Bind(d, CustomIter(insts[s], intervals, step, o[1], o[3], o[2]),
             [NoCall EXCEPT !.op = "custom_iter", !.src = s,
                 !.intervals = intervals, !.step = step,
                 !.start = o[1], !.limit = o[2], !.counts = o[3]])

\* next(insts[i])
DoNext(i) ==
    /\ Running
    /\ Live(i)
    /\ insts[i].counter < MaxCalls
    /\ stops[i] < MaxStops
    /\ LET r == NextOf(insts[i])
       IN  /\ insts' = [insts EXCEPT ![i] = r.inst]
           /\ out' = IF r.raised THEN out
                     ELSE [out EXCEPT ![i] = Append(@, r.value)]
           /\ stops' = IF r.raised THEN [stops EXCEPT ![i] = @ + 1] ELSE stops
           /\ last' = [NoCall EXCEPT !.op = "next", !.src = i, !.dst = i,
                          !.status = IF r.raised THEN "stop" ELSE "ok"]

\* one of the calls that return a new instance, made on slot s
Derive(s, d, dom) ==
    /\ Live(s)
    /\ d # s
    /\ \/ DoCopy(s, d, dom)
       \/ DoIter(s, d)
       \/ DoMap(s, d, dom)
       \/ DoSlice(s, d, dom)
       \/ DoCustomIter(s, d, dom)

\* A list is constructed; then either it is advanced with next(), or one
\* call derives a second instance from it while its cursor is fresh.
Next ==
    \/ DoConstruct(Wide)
    \/ /\ last.op = "init"
       /\ Derive(1, 2, Wide)
    \/ /\ ~Live(2)
       /\ DoNext(1)

Spec == Init /\ [][Next]_vars

\* A list is constructed and advanced; a second instance is derived from it
\* at any point; from then on next() calls on the two are interleaved.
NextInterleaved ==
    \/ DoConstruct(Few)
    \/ /\ ~Live(2)
       /\ Derive(1, 2, Few)
    \/ \E i \in Slots : DoNext(i)

SpecInterleaved == Init /\ [][NextInterleaved]_vars

(* ------------------------------- claims -------------------------------- *)
Count(seq, v) == Cardinality({k \in 1..Len(seq) : seq[k] = v})
Positive(x) == IsInt(x) /\ x.val > 0

\* C1: a list constructed over the n positions of S with counts=c, c a
\* positive integer, delivers exactly c * n items before next() raises
\* StopIteration, each position of S exactly c times; the same holds of the
\* items a for-loop over the list collects.
C1_CountsCycles ==
    \A i \in Slots :
        (Live(i) /\ Positive(insts[i].counts)) =>
            LET n == Len(insts[i].values)
                c == insts[i].counts.val
            IN  /\ stops[i] > 0 =>
                     /\ Len(out[i]) = c * n
                     /\ \A p \in 1..n : Count(out[i], insts[i].values[p]) = c
                /\ (i = 1 /\ last.op = "init") =>
                     LET l == ListOf(insts[1])
                     IN  /\ l.status = "ok"
                         /\ Len(l.vals) = c * n
                         /\ \A p \in 0..(n - 1) : Count(l.vals, p) = c

C1_Witness ==
    /\ Live(1) /\ insts[1].counts = IntV(2) /\ Len(insts[1].values) = 3
    /\ stops[1] > 0 /\ Len(out[1]) = 6

\* C2: the k-th successful next() (k from 0) on an instance whose cursor
\* started at index c returns at((c + k) mod n), one element per call, for
\* either direction; a non-reversed list started at 0 returns values[k mod n].
C2_IndexOrder ==
    \A i \in Slots :
        Live(i) =>
            LET n == Len(insts[i].values)
                c == insts[i].start_index
            IN  /\ insts[i].counter = Len(out[i]) + stops[i]
                /\ \A k \in 0..(Len(out[i]) - 1) :
                     /\ out[i][k + 1] = GetItem(insts[i], (c + k) % n)
                     /\ (~insts[i].reverse /\ c = 0) =>
                            out[i][k + 1] = insts[i].values[(k % n) + 1]

C2_Witness ==
    /\ Live(1) /\ insts[1].reverse /\ insts[1].start_index = 1
    /\ Len(insts[1].values) = 3 /\ Len(out[1]) = 5

DeriveOps == {"copy", "iter", "map", "slice", "custom_iter"}
NoOverrides ==
    /\ last.args = <<>> /\ last.start = NoneV /\ last.reverse = "None"
    /\ last.limit = NoneV /\ last.counts = NoneV
DefaultBounds(inst) == inst.limit = Unset /\ inst.counts = Unset
\* the canonical rotation of a list: R[k] = values[(s + k) mod n], k from 0
Rotation(inst, k) ==
    inst.values[((inst.start_index + k) % Len(inst.values)) + 1]

\* C3 (as claimed): for a list with any start index s, iterating the result
\* of custom_iter(step=step), step >= 1, yields R[0], R[step], R[2*step], ...
\* in that order, R the canonical rotation.
C3_AsClaimed ==
    (/\ last.op = "custom_iter" /\ ~last.intervals.given /\ Truthy(last.step)
     /\ NoOverrides
     /\ ~insts[1].reverse /\ DefaultBounds(insts[1])) =>
        LET n == Len(insts[1].values)
            step == last.step.val
            l == ListOf(insts[2])
        IN  /\ last.status = "ok"
            /\ l.status = "ok"
            /\ l.vals = [j \in 1..(((n - 1) \div step) + 1) |->
                            Rotation(insts[1], (j - 1) * step)]

RECURSIVE SumTo(_, _)
SumTo(hops, j) == IF j = 0 THEN 0 ELSE SumTo(hops, j - 1) + hops[j]

IsDefault(inst) ==
    /\ ~inst.reverse /\ DefaultBounds(inst) /\ inst.start_index = 0

\* C4: for a default-configured list and a list of integer hops h1..hm,
\* iterating the result of custom_iter(intervals=[h1..hm]) yields exactly
\* m + 1 items: R[0], then R[(h1 + ... + hj) mod n] for j = 1..m.
C4_IntervalWalk ==
    (/\ last.op = "custom_iter" /\ last.intervals.given
     /\ last.intervals.status = "ok" /\ last.step = NoneV /\ NoOverrides
     /\ IsDefault(insts[1])) =>
        LET n == Len(insts[1].values)
            hops == last.intervals.vals
            l == ListOf(insts[2])
        IN  /\ last.status = "ok"
            /\ l.status = "ok"
            /\ Len(l.vals) = Len(hops) + 1
            /\ \A j \in 0..Len(hops) :
                 l.vals[j + 1] = Rotation(insts[1], SumTo(hops, j) % n)

C4_Witness ==
    /\ last.op = "custom_iter" /\ last.status = "ok" /\ NoOverrides
    /\ last.intervals.given /\ last.intervals.vals = <<2, -1>>
    /\ last.step = NoneV /\ IsDefault(insts[1]) /\ Len(insts[1].values) = 3
    /\ insts[2].values = <<0, 2, 1>>

SliceFrom(inst) ==
    inst.start_index + (IF last.start = NoneV THEN 0 ELSE last.start.val)

SliceHolds(cnt) ==
    /\ last.status = "ok"
    /\ Len(insts[2].values) = cnt
    /\ \A k \in 1..cnt :
         insts[2].values[k] = GetItem(insts[1], SliceFrom(insts[1]) + k - 1)

Meaningful(x) == IsInt(x) /\ x.val # 0

\* C6: construction fails exactly when the values are empty or limit and
\* counts are both meaningful (an int other than 0), and no instance
\* obtained by construction, copy, slice or custom_iter holds a meaningful
\* limit together with a meaningful counts.
C6_ExclusiveBounds ==
    /\ last.op = "init" =>
         (last.status = "error" <=>
            (last.n = 0 \/ (Meaningful(last.limit) /\ Meaningful(last.counts))))
    /\ last.op = "init" => (last.status = "ok" <=> Live(1))
    /\ \A i \in Slots :
         Live(i) => ~(Meaningful(insts[i].limit) /\ Meaningful(insts[i].counts))

C6_Witness ==
    /\ last.op = "copy" /\ last.status = "error"
    /\ Meaningful(insts[1].counts) /\ Meaningful(last.limit)

\* C7 (as claimed): copying or iterating an already reversed instance with no
\* overrides keeps its stored start index, and the iterator of a list
\* delivers what next() delivers on a fresh cursor of the list itself.
C7_AsClaimed ==
    /\ (/\ last.op \in {"copy", "iter"} /\ last.status = "ok" /\ NoOverrides
        /\ insts[1].reverse) =>
            insts[2].start_index = insts[1].start_index
    /\ (last.op = "init" /\ last.status = "ok" /\ IsInt(EffLimit(insts[1]))) =>
            ListOf(insts[1]).vals = DrainAll(insts[1])

Fresh(inst) ==
    [inst EXCEPT !.counter = 0, !.current_index = inst.start_index]

RECURSIVE RunAlone(_, _)
RunAlone(inst, m) ==
    IF m = 0 THEN [inst |-> inst, out |-> <<>>, stops |-> 0]
    ELSE LET p == RunAlone(inst, m - 1)
             r == NextOf(p.inst)
         IN  [inst |-> r.inst,
              out |-> IF r.raised THEN p.out ELSE Append(p.out, r.value),
              stops |-> IF r.raised THEN p.stops + 1 ELSE p.stops]

OwnCursor ==
    \A i \in Slots :
        Live(i) =>
            RunAlone(Fresh(insts[i]), Len(out[i]) + stops[i])
                = [inst |-> insts[i], out |-> out[i], stops |-> stops[i]]

SourceKept ==
    last'.op \in DeriveOps =>
        \A i \in Slots :
            (i # last'.dst \/ last'.status # "ok") =>
                insts'[i] = insts[i] /\ out'[i] = out[i] /\ stops'[i] = stops[i]

\* C8: copy, __iter__, map, slice and custom_iter leave every other
\* instance's values, configuration and cursor as they were, the instance
\* they return starts at counter 0, and under any interleaving of next()
\* calls each instance is where its own calls alone would have brought it.
C8_Independent == []OwnCursor /\ [][SourceKept]_vars

C8_Witness ==
    /\ Live(2) /\ last.op = "next" /\ last.src = 1
    /\ Len(out[1]) >= 2 /\ Len(out[2]) >= 1 /\ stops[2] >= 1

ClaimedE(inst) ==
    IF IsInt(inst.counts) THEN inst.counts.val * Len(inst.values)
    ELSE IF IsInt(inst.limit) THEN inst.limit.val
    ELSE Len(inst.values)

Delivers(i, e) ==
    /\ Len(out[i]) <= e
    /\ stops[i] > 0 => Len(out[i]) = e
    /\ Len(out[i]) = e => NextOf(insts[i]).raised
    /\ Len(out[i]) < e => ~NextOf(insts[i]).raised

NeverExhausted(i) == stops[i] = 0 /\ ~NextOf(insts[i]).raised

\* C9 (as claimed): a fresh cursor delivers exactly E items and then raises
\* StopIteration, with E = counts * n if counts is an integer, otherwise
\* E = limit if limit is a non-negative integer, otherwise E = n if both are
\* unset; with the bound resolved to None next() never raises.
C9_AsClaimed ==
    \A i \in Slots :
        Live(i) =>
            /\ (\/ IsInt(insts[i].counts)
                \/ (IsInt(insts[i].limit) /\ insts[i].limit.val >= 0)
                \/ (insts[i].counts = Unset /\ insts[i].limit = Unset))
                   => Delivers(i, ClaimedE(insts[i]))
            /\ (~IsInt(insts[i].counts) /\ insts[i].limit = NoneV)
                   => NeverExhausted(i)

AmendedE(inst) ==
    LET e == ClaimedE(inst) IN IF e < 0 THEN 0 ELSE e

\* C9 (amended): E = counts * n if counts is a non-negative integer,
\* otherwise (counts not an integer) E = limit if limit is a non-negative
\* integer, otherwise E = n if both are unset; a negative counts, or a negative
\* limit when counts is not an integer, delivers no item; with the bound
\* resolved to None next() never raises.
C9_ExhaustionBound ==
    \A i \in Slots :
        Live(i) =>
            /\ (\/ IsInt(insts[i].counts)
                \/ IsInt(insts[i].limit)
                \/ (insts[i].counts = Unset /\ insts[i].limit = Unset))
                   => Delivers(i, AmendedE(insts[i]))
            /\ (~IsInt(insts[i].counts) /\ insts[i].limit = NoneV)
                   => NeverExhausted(i)

C9_Witness ==
    /\ Live(1) /\ insts[1].counts = NoneV /\ insts[1].limit = IntV(2)
    /\ Len(insts[1].values) = 3 /\ stops[1] > 0 /\ Len(out[1]) = 2

\* C10: once next() has raised StopIteration on an instance, every later
\* next() on it raises again and returns nothing, and no call that raises
\* advances the instance's current index.
C10_ExhaustionPermanent ==
    [][\A i \in Slots :
         (last'.op = "next" /\ last'.src = i /\ insts'[i] # insts[i]) =>
            /\ stops[i] > 0 =>
                 (last'.status = "stop" /\ stops'[i] = stops[i] + 1)
            /\ last'.status = "stop" =>
                 /\ out'[i] = out[i]
                 /\ insts'[i].current_index = insts[i].current_index]_vars

C10_Witness ==
    /\ Live(1) /\ stops[1] = 2 /\ last.op = "next" /\ last.status = "stop"
    /\ Len(out[1]) = 3

\* C11 (as claimed): whatever the source's reverse flag, limit, counts and
\* start index s, the canonical rotation R that custom_iter materializes has
\* exactly n items with R[k] = values[(s + k) mod n]; a call with neither
\* step nor intervals nor overrides returns a list of exactly these values.
\* Stated of the sources whose limit and counts are not negative.
C11_AsClaimed ==
    (/\ last.op = "custom_iter" /\ last.status # "hang"
     /\ insts[1].limit.val >= 0 /\ insts[1].counts.val >= 0) =>
        LET n == Len(insts[1].values)
            R == ValueOrder(insts[1])
        IN  /\ Len(R) = n
            /\ \A k \in 0..(n - 1) : R[k + 1] = Rotation(insts[1], k)
            /\ (/\ ~last.intervals.given /\ last.step = NoneV /\ NoOverrides
                /\ last.status = "ok") => insts[2].values = R

====
